---- MODULE Spec2Model ----
(***************************************************************************)
(* inslice: rowslc / colslc and their shared filter core.                  *)
(*                                                                         *)
(* Text is a sequence of one-character strings.  Option<u32> is a sequence *)
(* of length zero (None) or one (Some(n)).                                 *)
(***************************************************************************)
EXTENDS Integers, Sequences, FiniteSets, TLC

VARIABLES s, res, filters, index, matched, tool, input, reader, writer, pc, flushes, fault

vars == <<s, res, filters, index, matched, tool, input, reader, writer, pc, flushes, fault>>

(***************************************************************************)
(* Bounds of the model.                                                    *)
(***************************************************************************)
MaxText == 5        \* longest filter text handed to Filter::from_str
MaxFilters == 2     \* most filters in one FilterSet / most -f arguments
MaxPos == 3         \* largest start/end of a directly constructed Filter
MaxInput == 3       \* most characters in the input stream

\* characters a filter text is drawn from
TextAlphabet == {"0", "1", "2", ":", "+", "-", "x"}
\* digits a command-line filter argument is drawn from: row and column
\* numbers as documented, counted from one
ArgDigits == {"1", "2"}
\* digits of the single filter argument of SpecRowArg
RowArgDigits == {"0", "1", "2"}
\* characters the input stream is drawn from
InputAlphabet == {"a", "b", " ", "\n"}

TextsOver(alphabet, n) == UNION {[1..k -> alphabet] : k \in 0..n}

(***************************************************************************)
(* Option<u32>                                                             *)
(***************************************************************************)
None == <<>>
Some(n) == <<n>>

(***************************************************************************)
(* Result<_, ParseError>                                                   *)
(***************************************************************************)
Ok(v) == [tag |-> "Ok", val |-> v]
ParseIntFailed == [tag |-> "Err", err |-> "ParseIntFailed"]
InvalidFilter == [tag |-> "Err", err |-> "InvalidFilter"]
\* no call of from_str has returned yet
NoResult == [tag |-> "None"]

Filter(start, end) == [start |-> start, end |-> end]

(***************************************************************************)
(* str::split(':'): the segments between the colons, at least one.         *)
(***************************************************************************)
RECURSIVE SplitFrom(_, _, _)
SplitFrom(text, i, cur) ==
    IF i > Len(text) THEN <<cur>>
    ELSE IF text[i] = ":" THEN <<cur>> \o SplitFrom(text, i + 1, <<>>)
    ELSE SplitFrom(text, i + 1, Append(cur, text[i]))

split(text) == SplitFrom(text, 1, <<>>)

(***************************************************************************)
(* <u32 as FromStr>::from_str: an optional leading '+', then one or more   *)
(* decimal digits; '-' is not a sign for an unsigned type; a value above   *)
(* u32::MAX overflows.                                                     *)
(***************************************************************************)
DecimalDigits == <<"0", "1", "2", "3", "4", "5", "6", "7", "8", "9">>

IsDigit(c) == \E d \in 1..10 : DecimalDigits[d] = c

DigitValue(c) == (CHOOSE d \in 1..10 : DecimalDigits[d] = c) - 1

\* u32::MAX, as the decimal digits of 2^32 - 1
U32MaxDigits == <<"4", "2", "9", "4", "9", "6", "7", "2", "9", "5">>

RECURSIVE StripZeros(_)
StripZeros(digits) ==
    IF digits # <<>> /\ digits[1] = "0" THEN StripZeros(Tail(digits)) ELSE digits

RECURSIVE DigitsGreater(_, _)
DigitsGreater(a, b) ==
    IF a = <<>> THEN FALSE
    ELSE IF DigitValue(a[1]) # DigitValue(b[1]) THEN DigitValue(a[1]) > DigitValue(b[1])
    ELSE DigitsGreater(Tail(a), Tail(b))

\* checked_mul / checked_add fail exactly when the value would exceed u32::MAX
PosOverflow(digits) ==
    LET d == StripZeros(digits) IN
    \/ Len(d) > Len(U32MaxDigits)
    \/ Len(d) = Len(U32MaxDigits) /\ DigitsGreater(d, U32MaxDigits)

RECURSIVE Accumulate(_, _, _)
Accumulate(digits, i, acc) ==
    IF i > Len(digits) THEN Ok(acc)
    ELSE Accumulate(digits, i + 1, acc * 10 + DigitValue(digits[i]))

from_str_radix(digits) ==
    IF \E i \in 1..Len(digits) : ~IsDigit(digits[i]) THEN ParseIntFailed
    ELSE IF PosOverflow(digits) THEN ParseIntFailed
    ELSE Accumulate(digits, 1, 0)

\* as for a signed type: a leading '-' is taken as a sign and the magnitude kept
parse_signed(tok) ==
    IF tok = <<>> THEN ParseIntFailed
    ELSE IF Len(tok) = 1 /\ tok[1] \in {"+", "-"} THEN ParseIntFailed
    ELSE IF tok[1] \in {"+", "-"} THEN from_str_radix(Tail(tok))
    ELSE from_str_radix(tok)

parse(tok) ==
    IF tok = <<>> THEN ParseIntFailed
    ELSE IF Len(tok) = 1 /\ tok[1] \in {"+", "-"} THEN ParseIntFailed
    ELSE IF tok[1] = "+" THEN from_str_radix(Tail(tok))
    ELSE from_str_radix(tok)

(***************************************************************************)
(* Filter::from_str                                                        *)
(***************************************************************************)
\* start defaulting to 0 when the leading number is missing
parse_start_zero(filter) ==
    IF filter[1] = <<>> THEN Ok(0) ELSE parse(filter[1])

parse_start(filter) ==
    IF filter[1] = <<>> THEN Ok(1) ELSE parse(filter[1])

\* the range check written end <= start
parse_end_strict(filter, start) ==
    IF Len(filter) < 2 THEN Ok(None)
    ELSE IF filter[2] = <<>> THEN Ok(Some(0))
    ELSE LET end == parse(filter[2]) IN
         IF end.tag = "Err" THEN end
         ELSE IF end.val <= start THEN InvalidFilter
         ELSE Ok(Some(end.val))

\* the end taken from the last segment instead of the second
parse_end_last(filter, start) ==
    IF Len(filter) < 2 THEN Ok(None)
    ELSE IF filter[Len(filter)] = <<>> THEN Ok(Some(0))
    ELSE LET end == parse(filter[Len(filter)]) IN
         IF end.tag = "Err" THEN end
         ELSE IF end.val < start THEN InvalidFilter
         ELSE Ok(Some(end.val))

parse_end(filter, start) ==
    IF Len(filter) < 2 THEN Ok(None)
    ELSE IF filter[2] = <<>> THEN Ok(Some(0))
    ELSE LET end == parse(filter[2]) IN
         IF end.tag = "Err" THEN end
         ELSE IF end.val < start THEN InvalidFilter
         ELSE Ok(Some(end.val))

from_str(text) ==
    LET filter == split(text)
        start == parse_start(filter)
    IN  IF start.tag = "Err" THEN start
        ELSE LET end == parse_end(filter, start.val) IN
             IF end.tag = "Err" THEN end
             ELSE Ok(Filter(start.val, end.val))

(***************************************************************************)
(* FilterSet::apply                                                        *)
(***************************************************************************)
filter_matches(filter, idx) ==
    IF filter.end = None THEN idx = filter.start
    ELSE IF filter.end[1] = 0 THEN TRUE
    ELSE idx <= filter.end[1]

RECURSIVE apply_from(_, _, _)
apply_from(fs, i, idx) ==
    IF i > Len(fs) THEN FALSE
    ELSE IF idx < fs[i].start THEN apply_from(fs, i + 1, idx)
    ELSE IF filter_matches(fs[i], idx) THEN TRUE
    ELSE apply_from(fs, i + 1, idx)

\* the loop returning the first started filter's verdict instead of going on
RECURSIVE apply_first_from(_, _, _)
apply_first_from(fs, i, idx) ==
    IF i > Len(fs) THEN FALSE
    ELSE IF idx < fs[i].start THEN apply_first_from(fs, i + 1, idx)
    ELSE filter_matches(fs[i], idx)

apply_first(fs, idx) == apply_first_from(fs, 1, idx)

apply(fs, idx) == apply_from(fs, 1, idx)

is_empty(fs) == Len(fs) = 0

(***************************************************************************)
(* SpecApply: FilterSet::apply on a FilterSet built from Filter values     *)
(* constructed directly, as the tests of the filter module do.             *)
(***************************************************************************)
Options == {None} \cup {Some(n) : n \in 0..MaxPos}

Filters == {Filter(a, e) : a \in 0..MaxPos, e \in Options}

FilterSets == UNION {[1..k -> Filters] : k \in 0..MaxFilters}

InitApply ==
    /\ s = <<>>
    /\ res = NoResult
    /\ filters \in FilterSets
    /\ index = 0
    /\ matched = FALSE
    /\ tool = "filter"
    /\ input = <<>>
    /\ reader = <<>>
    /\ writer = <<>>
    /\ pc = "apply"
    /\ flushes = 0
    /\ fault = "none"

Apply ==
    /\ pc \in {"apply", "applied"}
    /\ \E p \in 0..(MaxPos + 1) :
          /\ index' = p
          /\ matched' = apply(filters, p)
    /\ pc' = "applied"
    /\ UNCHANGED <<s, res, filters, tool, input, reader, writer, flushes, fault>>

NextApply == Apply

SpecApply == InitApply /\ [][NextApply]_vars

(***************************************************************************)
(* SpecFromStr: Filter::from_str applied to one text.                      *)
(***************************************************************************)
InitFromStr ==
    /\ s \in TextsOver(TextAlphabet, MaxText)
    /\ res = NoResult
    /\ filters = <<>>
    /\ index = 0
    /\ matched = FALSE
    /\ tool = "filter"
    /\ input = <<>>
    /\ reader = <<>>
    /\ writer = <<>>
    /\ pc = "from_str"
    /\ flushes = 0
    /\ fault = "none"

FromStr ==
    /\ pc = "from_str"
    /\ res' = from_str(s)
    /\ pc' = "returned"
    /\ UNCHANGED <<s, filters, index, matched, tool, input, reader, writer, flushes, fault>>

NextFromStr == FromStr

SpecFromStr == InitFromStr /\ [][NextFromStr]_vars

(***************************************************************************)
(* The slicers.                                                            *)
(*                                                                         *)
(* pc: "loop" slice is about to call read_line; "flush" the loop has been  *)
(* left and writer.flush() is next; "done" slice returned Ok(()); "err"    *)
(* slice returned Err.  fault records which I/O call, if any, has failed.  *)
(* reader is what the input source still holds, writer what the sink has   *)
(* accepted, input the whole content of the source.                        *)
(***************************************************************************)
\* BufRead::read_line: the bytes up to and including the next newline, or
\* all that is left
RECURSIVE read_line(_)
read_line(r) ==
    IF r = <<>> THEN <<>>
    ELSE IF r[1] = "\n" THEN <<"\n">>
    ELSE <<r[1]>> \o read_line(Tail(r))

\* what is left in the source after a line of n bytes was read
advance(r, n) == SubSeq(r, n + 1, Len(r))

is_whitespace(c) == c \in {" ", "\n"}

\* str::split_whitespace: the maximal runs of non-whitespace characters
RECURSIVE split_whitespace_from(_, _, _)
split_whitespace_from(text, i, cur) ==
    LET done == IF cur = <<>> THEN <<>> ELSE <<cur>> IN
    IF i > Len(text) THEN done
    ELSE IF is_whitespace(text[i]) THEN done \o split_whitespace_from(text, i + 1, <<>>)
    ELSE split_whitespace_from(text, i + 1, Append(cur, text[i]))

split_whitespace(text) == split_whitespace_from(text, 1, <<>>)

\* [&str]::join(sep)
RECURSIVE join(_, _)
join(cols, sep) ==
    IF cols = <<>> THEN <<>>
    ELSE IF Len(cols) = 1 THEN cols[1]
    ELSE cols[1] \o sep \o join(Tail(cols), sep)

\* .enumerate().filter(|&(index, _)| filters.apply(1 + index)).map(|(_, col)| col)
RECURSIVE columns_from(_, _, _)
columns_from(fs, tokens, i) ==
    IF i >= Len(tokens) THEN <<>>
    ELSE (IF apply(fs, 1 + i) THEN <<tokens[i + 1]>> ELSE <<>>)
         \o columns_from(fs, tokens, i + 1)

\* the enumeration index handed to apply as it is, without the 1 +
RECURSIVE columns_zero_based_from(_, _, _)
columns_zero_based_from(fs, tokens, i) ==
    IF i >= Len(tokens) THEN <<>>
    ELSE (IF apply(fs, i) THEN <<tokens[i + 1]>> ELSE <<>>)
         \o columns_zero_based_from(fs, tokens, i + 1)

columns_zero_based(fs, buf) == columns_zero_based_from(fs, split_whitespace(buf), 0)

columns(fs, buf) == columns_from(fs, split_whitespace(buf), 0)

\* the row slicer keeping a line by its 0-based index
row_retains_zero_based(fs, idx) == is_empty(fs) \/ apply(fs, idx)

\* rowslc: whether the line at 0-based index idx is written
row_retains(fs, idx) == is_empty(fs) \/ apply(fs, 1 + idx)

\* colslc: what is written for the line in buf
col_output(fs, buf) ==
    IF is_empty(fs) THEN buf ELSE join(columns(fs, buf), <<" ">>) \o <<"\n">>

\* a write that fails may have put any proper prefix of its data in the sink
ProperPrefixes(data) == {SubSeq(data, 1, k) : k \in 0..(Len(data) - 1)}

(***************************************************************************)
(* Filter arguments of the command line: an optional one-digit number,     *)
(* optionally followed by a colon and an optional one-digit number.        *)
(***************************************************************************)
ArgTokens(digits) == {<<>>} \cup {<<d>> : d \in digits}

ArgTextsOver(digits) ==
    ArgTokens(digits) \cup {a \o <<":">> \o b : a \in ArgTokens(digits), b \in ArgTokens(digits)}

ArgTexts == ArgTextsOver(ArgDigits)

\* the Filter values clap obtains from the arguments through Filter::from_str
ParsedFilters == {from_str(t).val : t \in {u \in ArgTexts : from_str(u).tag = "Ok"}}

ParsedFilterSets == UNION {[1..k -> ParsedFilters] : k \in 0..MaxFilters}

Inputs == TextsOver(InputAlphabet, MaxInput)

(***************************************************************************)
(* Spec: RowSlicer::slice and ColSlicer::slice on a slicer constructed     *)
(* with a reader and the FilterSet of the parsed arguments.                *)
(***************************************************************************)
Init ==
    /\ s = <<>>
    /\ res = NoResult
    /\ filters \in ParsedFilterSets
    /\ index = 0
    /\ matched = FALSE
    /\ tool \in {"rowslc", "colslc"}
    /\ input \in Inputs
    /\ reader = input
    /\ writer = <<>>
    /\ pc = "loop"
    /\ flushes = 0
    /\ fault = "none"

\* the match on read_line's result: Ok(n > 0) while the source holds bytes,
\* Ok(0) at its end
AtLine(t) == tool = t /\ pc = "loop" /\ reader # <<>>

AtEof(t) == tool = t /\ pc = "loop" /\ reader = <<>>

\* the loop has been left by break
AtFlush(t) == tool = t /\ pc = "flush"

\* rowslc: read_line returns Ok(n > 0), the line is written if retained
RowLine ==
    /\ AtLine("rowslc")
    /\ LET buf == read_line(reader) IN
          /\ reader' = advance(reader, Len(buf))
          /\ writer' = IF row_retains(filters, index) THEN writer \o buf ELSE writer
    /\ index' = index + 1
    /\ UNCHANGED <<s, res, filters, matched, tool, input, pc, flushes, fault>>

\* the failed write swallowed and the loop going on
RowWriteErrIgnored ==
    /\ AtLine("rowslc")
    /\ row_retains(filters, index)
    /\ LET buf == read_line(reader) IN
          /\ reader' = advance(reader, Len(buf))
          /\ \E part \in ProperPrefixes(buf) : writer' = writer \o part
    /\ fault' = "write"
    /\ index' = index + 1
    /\ UNCHANGED <<s, res, filters, matched, tool, input, pc, flushes>>

\* rowslc: read_line returns Ok(n > 0), the write of the retained line fails
RowWriteErr ==
    /\ AtLine("rowslc")
    /\ row_retains(filters, index)
    /\ LET buf == read_line(reader) IN
          /\ reader' = advance(reader, Len(buf))
          /\ \E part \in ProperPrefixes(buf) : writer' = writer \o part
    /\ fault' = "write"
    /\ pc' = "err"
    /\ UNCHANGED <<s, res, filters, index, matched, tool, input, flushes>>

\* rowslc: read_line returns Err
RowReadErr ==
    /\ tool = "rowslc" /\ pc = "loop"
    /\ fault' = "read"
    /\ pc' = "err"
    /\ UNCHANGED <<s, res, filters, index, matched, tool, input, reader, writer, flushes>>

\* the loop left by returning Ok(()) at once, without the flush
RowEofReturn ==
    /\ AtEof("rowslc")
    /\ pc' = "done"
    /\ UNCHANGED <<s, res, filters, index, matched, tool, input, reader, writer, flushes, fault>>

\* rowslc: read_line returns Ok(0), the loop is left
RowEof ==
    /\ AtEof("rowslc")
    /\ pc' = "flush"
    /\ UNCHANGED <<s, res, filters, index, matched, tool, input, reader, writer, flushes, fault>>

\* rowslc: writer.flush() succeeds and slice returns Ok(())
RowFlush ==
    /\ AtFlush("rowslc")
    /\ flushes' = flushes + 1
    /\ pc' = "done"
    /\ UNCHANGED <<s, res, filters, index, matched, tool, input, reader, writer, fault>>

\* rowslc: writer.flush() fails
RowFlushErr ==
    /\ AtFlush("rowslc")
    /\ fault' = "flush"
    /\ pc' = "err"
    /\ UNCHANGED <<s, res, filters, index, matched, tool, input, reader, writer, flushes>>

\* colslc: read_line returns Ok(n > 0), the line or its retained columns are written
ColLine ==
    /\ AtLine("colslc")
    /\ LET buf == read_line(reader) IN
          /\ reader' = advance(reader, Len(buf))
          /\ writer' = writer \o col_output(filters, buf)
    /\ UNCHANGED <<s, res, filters, index, matched, tool, input, pc, flushes, fault>>

\* colslc: read_line returns Ok(n > 0), the write fails
ColWriteErr ==
    /\ AtLine("colslc")
    /\ LET buf == read_line(reader) IN
          /\ reader' = advance(reader, Len(buf))
          /\ \E part \in ProperPrefixes(col_output(filters, buf)) : writer' = writer \o part
    /\ fault' = "write"
    /\ pc' = "err"
    /\ UNCHANGED <<s, res, filters, index, matched, tool, input, flushes>>

\* colslc: read_line returns Err
ColReadErr ==
    /\ tool = "colslc" /\ pc = "loop"
    /\ fault' = "read"
    /\ pc' = "err"
    /\ UNCHANGED <<s, res, filters, index, matched, tool, input, reader, writer, flushes>>

\* colslc: read_line returns Ok(0), the loop is left
ColEof ==
    /\ AtEof("colslc")
    /\ pc' = "flush"
    /\ UNCHANGED <<s, res, filters, index, matched, tool, input, reader, writer, flushes, fault>>

\* colslc: writer.flush() succeeds and slice returns Ok(())
ColFlush ==
    /\ AtFlush("colslc")
    /\ flushes' = flushes + 1
    /\ pc' = "done"
    /\ UNCHANGED <<s, res, filters, index, matched, tool, input, reader, writer, fault>>

\* colslc: writer.flush() fails
ColFlushErr ==
    /\ AtFlush("colslc")
    /\ fault' = "flush"
    /\ pc' = "err"
    /\ UNCHANGED <<s, res, filters, index, matched, tool, input, reader, writer, flushes>>

RowNext == RowLine \/ RowWriteErr \/ RowReadErr \/ RowEof \/ RowFlush \/ RowFlushErr

ColNext == ColLine \/ ColWriteErr \/ ColReadErr \/ ColEof \/ ColFlush \/ ColFlushErr

Next == RowNext \/ ColNext

Spec == Init /\ [][Next]_vars

(***************************************************************************)
(* SpecRowArg: rowslc run with one filter argument: the argument is parsed *)
(* by Filter::from_str, a failure ends the run before any I/O, a success   *)
(* constructs the RowSlicer, which then slices.                            *)
(***************************************************************************)
InitRowArg ==
    /\ s \in ArgTextsOver(RowArgDigits)
    /\ res = NoResult
    /\ filters = <<>>
    /\ index = 0
    /\ matched = FALSE
    /\ tool = "rowslc"
    /\ input \in Inputs
    /\ reader = input
    /\ writer = <<>>
    /\ pc = "opts"
    /\ flushes = 0
    /\ fault = "none"

\* Opts::parse() turns the argument into a Filter, run() builds the slicer
ParseOpts ==
    /\ pc = "opts"
    /\ res' = from_str(s)
    /\ IF res'.tag = "Ok"
       THEN filters' = <<res'.val>> /\ pc' = "loop"
       ELSE filters' = filters /\ pc' = "exit"
    /\ UNCHANGED <<s, index, matched, tool, input, reader, writer, flushes, fault>>

NextRowArg == ParseOpts \/ RowNext

SpecRowArg == InitRowArg /\ [][NextRowArg]_vars

(***************************************************************************)
(* The filter grammar, stated on the text itself.                          *)
(***************************************************************************)
Colons(text) == {k \in 1..Len(text) : text[k] = ":"}

Least(S) == CHOOSE k \in S : \A j \in S : k <= j

\* the text before the first colon
StartToken(text) ==
    IF Colons(text) = {} THEN text ELSE SubSeq(text, 1, Least(Colons(text)) - 1)

HasEndToken(text) == Colons(text) # {}

\* the text between the first colon and the second (or the end of the text)
EndToken(text) ==
    LET c1 == Least(Colons(text))
        later == Colons(text) \ {c1}
    IN  SubSeq(text, c1 + 1, IF later = {} THEN Len(text) ELSE Least(later) - 1)

\* an unsigned integer literal: one or more decimal digits
IsLiteral(tok) ==
    tok # <<>> /\ \A i \in 1..Len(tok) : tok[i] \in {"0", "1", "2", "3", "4", "5", "6", "7", "8", "9"}

\* a literal preceded by one '+'
IsPlusLiteral(tok) == tok # <<>> /\ tok[1] = "+" /\ IsLiteral(Tail(tok))

RECURSIVE Pow10(_)
Pow10(n) == IF n = 0 THEN 1 ELSE 10 * Pow10(n - 1)

RECURSIVE PlaceSum(_, _)
PlaceSum(tok, i) ==
    IF i > Len(tok) THEN 0
    ELSE DigitValue(tok[i]) * Pow10(Len(tok) - i) + PlaceSum(tok, i + 1)

\* the number a literal denotes
Denotes(tok) == PlaceSum(tok, 1)

Returned == pc = "returned"

\* the text is "n:m", both n and m literals, and nothing else
IsTwoBound(text) ==
    /\ Cardinality(Colons(text)) = 1
    /\ IsLiteral(StartToken(text))
    /\ IsLiteral(EndToken(text))

\* C4: "n:m" with m >= n parses to {start: n, end: Some(m)}; with m < n it is
\* the InvalidFilter error; and every parsed Filter whose end is present and
\* nonzero has end >= start.
C4_TwoBoundRange ==
    Returned =>
        /\ IsTwoBound(s) =>
              LET n == Denotes(StartToken(s))
                  m == Denotes(EndToken(s))
              IN  /\ m >= n => res = Ok(Filter(n, Some(m)))
                  /\ m < n => res = InvalidFilter
        /\ (res.tag = "Ok" /\ res.val.end # None /\ res.val.end[1] # 0)
              => res.val.end[1] >= res.val.start

C4_Witness ==
    /\ Returned
    /\ IsTwoBound(s)
    /\ Denotes(EndToken(s)) = Denotes(StartToken(s))
    /\ Denotes(StartToken(s)) > 0
    /\ res.tag = "Ok"

\* C5 as claimed: "n" -> {n, None}; "n:" -> {n, Some(0)}; ":n" -> {1, Some(n)}
\* for every literal n; ":" -> {1, Some(0)}.
C5_Original ==
    Returned =>
        /\ IsLiteral(s) => res = Ok(Filter(Denotes(s), None))
        /\ (Cardinality(Colons(s)) = 1 /\ IsLiteral(StartToken(s)) /\ EndToken(s) = <<>>)
              => res = Ok(Filter(Denotes(StartToken(s)), Some(0)))
        /\ (Cardinality(Colons(s)) = 1 /\ StartToken(s) = <<>> /\ IsLiteral(EndToken(s)))
              => res = Ok(Filter(1, Some(Denotes(EndToken(s)))))
        /\ s = <<":">> => res = Ok(Filter(1, Some(0)))

\* C5 (amended): as claimed, except that ":n" yields {1, Some(n)} only for
\* n >= 1; ":n" with n = 0 is the InvalidFilter error (end 0 < start 1).
C5_OneBoundForms ==
    Returned =>
        /\ IsLiteral(s) => res = Ok(Filter(Denotes(s), None))
        /\ (Cardinality(Colons(s)) = 1 /\ IsLiteral(StartToken(s)) /\ EndToken(s) = <<>>)
              => res = Ok(Filter(Denotes(StartToken(s)), Some(0)))
        /\ (Cardinality(Colons(s)) = 1 /\ StartToken(s) = <<>> /\ IsLiteral(EndToken(s)))
              => IF Denotes(EndToken(s)) >= 1
                 THEN res = Ok(Filter(1, Some(Denotes(EndToken(s)))))
                 ELSE res = InvalidFilter
        /\ s = <<":">> => res = Ok(Filter(1, Some(0)))

C5_Witness ==
    /\ Returned
    /\ Cardinality(Colons(s)) = 1
    /\ StartToken(s) = <<>>
    /\ IsLiteral(EndToken(s))
    /\ Denotes(EndToken(s)) = 0
    /\ res = InvalidFilter

\* C6: every Filter that from_str returns has start >= 1.
C6_StartAtLeastOne ==
    (Returned /\ res.tag = "Ok") => res.val.start >= 1

\* a start or end token that is present, nonempty and not of the given form
HasBadToken(text, WellFormed(_)) ==
    \/ StartToken(text) # <<>> /\ ~WellFormed(StartToken(text))
    \/ HasEndToken(text) /\ EndToken(text) # <<>> /\ ~WellFormed(EndToken(text))

IsLiteralOrPlusLiteral(tok) == IsLiteral(tok) \/ IsPlusLiteral(tok)

\* C8 as claimed: a start or end token that is nonempty and not an unsigned
\* literal (any signed token included) makes from_str fail with ParseIntFailed.
C8_Original ==
    (Returned /\ HasBadToken(s, IsLiteral)) => res = ParseIntFailed

\* C8 (amended): a start or end token that is nonempty and neither an unsigned
\* literal nor such a literal preceded by one '+' (so any token with a '-', a
\* lone sign or a non-digit) makes from_str fail with ParseIntFailed, never Ok
\* and never InvalidFilter; "+n" is read as n.
C8_BadTokenFails ==
    (Returned /\ HasBadToken(s, IsLiteralOrPlusLiteral)) => res = ParseIntFailed

\* "n:-m" with n > m: the other token would make the range inverted
C8_Witness ==
    /\ Returned
    /\ IsLiteral(StartToken(s))
    /\ HasEndToken(s)
    /\ Len(EndToken(s)) = 2
    /\ EndToken(s)[1] = "-"
    /\ IsLiteral(Tail(EndToken(s)))
    /\ Denotes(Tail(EndToken(s))) < Denotes(StartToken(s))
    /\ res = ParseIntFailed

(***************************************************************************)
(* Union semantics of a FilterSet.                                         *)
(***************************************************************************)
\* filter f covers position p
Covers(f, p) ==
    /\ p >= f.start
    /\ \/ f.end = None /\ p = f.start
       \/ f.end = Some(0)
       \/ f.end # None /\ f.end[1] > 0 /\ p <= f.end[1]

CoveredBy(fs, p) == \E i \in 1..Len(fs) : Covers(fs[i], p)

Reorderings(fs) ==
    {[i \in 1..Len(fs) |-> fs[pi[i]]] :
        pi \in {f \in [1..Len(fs) -> 1..Len(fs)] : \A i, j \in 1..Len(fs) : f[i] = f[j] => i = j}}

\* C1: apply(p) is true iff some filter of the set covers p; for two filters
\* it is the disjunction of the one-filter sets; the order of the filters does
\* not matter.
C1_ApplyIsUnion ==
    (pc = "applied" /\ index >= 1) =>
        /\ matched <=> CoveredBy(filters, index)
        /\ Len(filters) = 2 =>
              (matched <=> (apply(<<filters[1]>>, index) \/ apply(<<filters[2]>>, index)))
        /\ \A gs \in Reorderings(filters) : apply(gs, index) <=> matched

\* the first filter has started but does not cover the position, a later one does
C1_Witness ==
    /\ pc = "applied"
    /\ index >= 1
    /\ Len(filters) = 2
    /\ index >= filters[1].start
    /\ ~Covers(filters[1], index)
    /\ Covers(filters[2], index)
    /\ matched

(***************************************************************************)
(* What the slicers are to write, stated on the input text.                *)
(***************************************************************************)
\* the part of the input the slicer has read so far
Consumed == SubSeq(input, 1, Len(input) - Len(reader))

\* the 1-based number of the line character k of the text belongs to
LineOf(text, k) == 1 + Cardinality({j \in 1..(k - 1) : text[j] = "\n"})

LineTotal(text) == IF text = <<>> THEN 0 ELSE LineOf(text, Len(text))

\* the characters of the text at the positions P, in their order
Pick(text, P) ==
    LET nth(i) == CHOOSE k \in P : Cardinality({j \in P : j <= k}) = i
    IN  [i \in 1..Cardinality(P) |-> text[nth(i)]]

LineText(text, i) == Pick(text, {k \in 1..Len(text) : LineOf(text, k) = i})

\* an empty FilterSet retains everything
Keeps(fs, p) == fs = <<>> \/ CoveredBy(fs, p)

RowExpected(fs, text) ==
    Pick(text, {k \in 1..Len(text) : Keeps(fs, LineOf(text, k))})

RECURSIVE Flatten(_)
Flatten(parts) == IF parts = <<>> THEN <<>> ELSE parts[1] \o Flatten(Tail(parts))

IsBlank(c) == c = " " \/ c = "\n"

\* where the tokens of a line begin
TokenStarts(ln) ==
    {k \in 1..Len(ln) : ~IsBlank(ln[k]) /\ (k = 1 \/ IsBlank(ln[k - 1]))}

TokenTotal(ln) == Cardinality(TokenStarts(ln))

\* the 1-based number of the token the non-blank character k belongs to
TokenOf(ln, k) == Cardinality({j \in TokenStarts(ln) : j <= k})

TokenText(ln, n) ==
    Pick(ln, {k \in 1..Len(ln) : ~IsBlank(ln[k]) /\ TokenOf(ln, k) = n})

KeptTokens(fs, ln) == {n \in 1..TokenTotal(ln) : CoveredBy(fs, n)}

ColExpectedLine(fs, ln) ==
    LET kept == KeptTokens(fs, ln)
        nth(i) == CHOOSE n \in kept : Cardinality({m \in kept : m <= n}) = i
    IN  Flatten([i \in 1..Cardinality(kept) |->
                    (IF i > 1 THEN <<" ">> ELSE <<>>) \o TokenText(ln, nth(i))])
        \o <<"\n">>

ColExpected(fs, text) ==
    IF fs = <<>> THEN text
    ELSE Flatten([i \in 1..LineTotal(text) |-> ColExpectedLine(fs, LineText(text, i))])

Running == pc \in {"loop", "flush", "done"}

\* C2: in row mode without I/O error the output is the lines, verbatim and in
\* input order, whose 1-based position is retained (empty FilterSet or a
\* covering filter); every line read advances the position by one; at the
\* end of the run that is the selection from the whole input.
C2_RowOutput ==
    (tool = "rowslc" /\ Running) =>
        /\ writer = RowExpected(filters, Consumed)
        /\ index = LineTotal(Consumed)
        /\ pc = "done" => writer = RowExpected(filters, input)

\* two filters, a dropped line before a retained last line without newline
C2_Witness ==
    /\ tool = "rowslc" /\ pc = "done"
    /\ Len(filters) = 2
    /\ input # <<>> /\ input[Len(input)] # "\n"
    /\ LineTotal(input) >= 2
    /\ ~Keeps(filters, 1)
    /\ Keeps(filters, LineTotal(input))
    /\ writer = LineText(input, LineTotal(input))

\* C3: in column mode an empty FilterSet copies each line unchanged; otherwise
\* each input line yields one output line: its retained tokens (positions
\* counted from 1 within the line), in order, joined by one space, then one
\* newline, also when no token is retained.
C3_ColOutput ==
    (tool = "colslc" /\ Running) =>
        /\ writer = ColExpected(filters, Consumed)
        /\ pc = "done" => writer = ColExpected(filters, input)

\* a line of two tokens without a newline: the first dropped, the second
\* written, followed by a newline
C3_Witness ==
    /\ tool = "colslc" /\ pc = "done"
    /\ filters # <<>>
    /\ LineTotal(input) = 1
    /\ input[Len(input)] # "\n"
    /\ TokenTotal(input) = 2
    /\ KeptTokens(filters, input) = {2}
    /\ writer = TokenText(input, 2) \o <<"\n">>

\* C7: a single row filter "n:m" that parses selects exactly the rows n..m.
C7_RangeSelectsRows ==
    (pc = "done" /\ IsTwoBound(s) /\ res.tag = "Ok") =>
        writer = Pick(input, {k \in 1..Len(input) :
                                 /\ Denotes(StartToken(s)) <= LineOf(input, k)
                                 /\ LineOf(input, k) <= Denotes(EndToken(s))})

IsPrefix(a, b) == Len(a) <= Len(b) /\ SubSeq(b, 1, Len(a)) = a

IsSuffix(a, b) == Len(a) <= Len(b) /\ SubSeq(b, Len(b) - Len(a) + 1, Len(b)) = a

\* C9: once a read, write or flush has failed, slice has returned an error;
\* after that nothing more is read, written or flushed; the failing step
\* itself leaves what the sink already held in place.
C9_ErrorAborts ==
    /\ [](fault # "none" <=> pc = "err")
    /\ [][fault # "none" => UNCHANGED <<reader, writer, flushes, pc, fault>>]_vars
    /\ [][fault' # "none" => (IsPrefix(writer, writer') /\ flushes' = flushes)]_vars

\* a write fails after earlier output, with input still unread
C9_Witness ==
    /\ fault = "write"
    /\ pc = "err"
    /\ writer # <<>>
    /\ reader # <<>>
    /\ flushes = 0

\* steps left at most: strictly smaller after every step
Remaining ==
    2 * Len(reader) + (IF pc = "loop" THEN 2 ELSE IF pc = "flush" THEN 1 ELSE 0)

\* C10: the loop consumes the input line by line, in order, never rewinding,
\* and ends only at end of input; every step brings the end nearer and a step
\* without I/O error is always possible until slice has returned; the one
\* flush is the last step before Ok(()), after every write; a run that
\* returned an error has not flushed.
C10_ConsumeOnceFlushOnce ==
    /\ [](IsSuffix(reader, input))
    /\ [](pc \in {"flush", "done"} => (reader = <<>> /\ fault = "none"))
    /\ [](pc = "done" <=> flushes = 1)
    /\ [](flushes <= 1)
    /\ [](pc = "err" => flushes = 0)
    /\ [](pc \in {"loop", "flush"} =>
            \E t \in {"rowslc", "colslc"} : AtLine(t) \/ AtEof(t) \/ AtFlush(t))
    /\ [][Remaining' < Remaining]_vars
    /\ [][(pc = "loop" /\ pc' = "loop") =>
             \E n \in 1..Len(reader) :
                /\ reader' = SubSeq(reader, n + 1, Len(reader))
                /\ \A k \in 1..(n - 1) : reader[k] # "\n"
                /\ (reader[n] = "\n" \/ n = Len(reader))]_vars
    /\ [][flushes' # flushes =>
             (flushes' = flushes + 1 /\ pc = "flush" /\ pc' = "done" /\ writer' = writer)]_vars

\* colslc has read two lines, written for both, flushed once and returned Ok
C10_Witness ==
    /\ tool = "colslc" /\ pc = "done"
    /\ flushes = 1
    /\ LineTotal(input) = 2
    /\ reader = <<>>
    /\ filters # <<>>
    /\ Len(writer) > 2

(***************************************************************************)
(* Text after a second colon.                                              *)
(***************************************************************************)
\* the position of the second colon of a text that has two
SecondColon(text) == Least(Colons(text) \ {Least(Colons(text))})

\* the first two colon-separated segments, joined by the colon between them
FirstTwoSegments(text) == SubSeq(text, 1, SecondColon(text) - 1)

\* C11: a text with more than one ':' parses to exactly what its first two
\* segments joined by ':' parse to (the same Filter or the same kind of
\* error), whatever follows the second colon.
C11_ExtraSegmentsIgnored ==
    (Returned /\ Cardinality(Colons(s)) >= 2) => res = from_str(FirstTwoSegments(s))

\* "n:m:k" with a third number that would invert the range, parsed as "n:m"
C11_Witness ==
    /\ Returned
    /\ Cardinality(Colons(s)) = 2
    /\ IsTwoBound(FirstTwoSegments(s))
    /\ Len(s) > SecondColon(s)
    /\ IsLiteral(SubSeq(s, SecondColon(s) + 1, Len(s)))
    /\ Denotes(SubSeq(s, SecondColon(s) + 1, Len(s))) < Denotes(StartToken(s))
    /\ res = Ok(Filter(Denotes(StartToken(s)), Some(Denotes(EndToken(s)))))

====
